---- MODULE Spec2Model ----
(***************************************************************************)
(* Model of visier/connector: VisierSession (sessions.py) with its connect *)
(* handshakes, the retrying execute primitive, scoped entry/exit, and the  *)
(* CallbackServer (callback.py) used by the authorization-code flow.       *)
(*                                                                         *)
(* One foreground thread of control runs the Session's methods; its       *)
(* position is pc.  The CallbackServer's serving thread runs Callback     *)
(* concurrently while the server is up.  The remote service and the       *)
(* caller-supplied request function are the environment: every response   *)
(* they can give is drawn from a small set.                                *)
(***************************************************************************)
EXTENDS Integers, Sequences, FiniteSets, TLC

VARIABLES
    auth,               \* VisierSession._auth: the credential
    session,            \* VisierSession._session: 0 is None, else a handle id
    handles,            \* every requests.Session() ever created, by id
    depth,              \* number of `with session:` scopes currently entered
    pc,                 \* position of the foreground thread
    op,                 \* the public operation in progress (or last finished)
    ret,                \* who called _connect: "enter" or "execute"
    num_attempts_left,  \* execute local
    is_ok,              \* execute local
    result,             \* execute local: the last Response of call_function
    context,            \* handle wrapped by the last SessionContext (0: none yet)
    server,             \* CallbackServer.server is not None (serving)
    flask_thread,       \* CallbackServer.flask_thread is not None
    alive,              \* number of threads running server.serve_forever
    queue,              \* CallbackServer.queue
    served,             \* codes of the callback requests served by this listener
    code,               \* _connect_auth_code local: the value read from the queue
    pending,            \* exception in flight through `with CallbackServer`
    pkce,               \* _connect_auth_code: the PKCE pair and where it was sent
    exit_ex,            \* ex_type handed to the last __exit__ (TRUE: an exception)
    trace,              \* events of the operation in progress
    outcome,            \* how the last finished operation ended
    posts,              \* token requests sent by the connect attempt in progress
    made,               \* a credential constructor call: its arguments and result
    provided_url,       \* the callback URL handed to CallbackBinding
    binding,            \* the CallbackBinding made from it
    source,             \* the lines of the iterator handed to ResultTable
    consumed,           \* how many of them the iterator has given out
    header,             \* ResultTable.header
    gens,               \* the generators made by ResultTable.rows()
    error_lineno,       \* lineno of the last JSONDecodeError (0: none)
    HEADER,             \* QueryApiClient.HEADER: its TargetTenantID entry
    sent,               \* requests built by request functions, oldest first
    raise_on_error,     \* ApiClientBase._raise_on_error
    last_error,         \* ApiClientBase._last_error
    run_pos,            \* position of ApiClientBase.run
    run_result          \* how the last run ended

vars == << auth, session, handles, depth, pc, op, ret, num_attempts_left, is_ok,
           result, context, server, flask_thread, alive, queue, served, code,
           pending, pkce,
           exit_ex,
           trace, outcome, posts, made, provided_url, binding,
           source, consumed, header, gens, error_lineno,
           HEADER, sent, raise_on_error, last_error, run_pos, run_result >>

TableVars == << source, consumed, header, gens, error_lineno >>
HeaderVars == << HEADER, sent >>
ApiVars == << raise_on_error, last_error, run_pos, run_result >>

\* State of the components the Session's operations do not touch.
Aside == << made, provided_url, binding, TableVars, HeaderVars, ApiVars >>

----------------------------------------------------------------------------
(* Bounds of the model *)

MaxHandles == 3     \* an operation starts only while fewer handles were created
MaxDepth == 2       \* nesting of `with session:` scopes
MaxQueue == 2       \* callback requests served while one listener is up
MaxLines == 3       \* lines of the source handed to a ResultTable
MaxGens == 2        \* calls of rows() on one ResultTable
MaxSent == 3        \* requests built by request functions

----------------------------------------------------------------------------
(* Values of the environment *)

\* Status codes the caller's request function may return.
Statuses == {200, 304, 401, 403, 500}

\* Status codes of the token endpoints; 0 stands for a transport failure
\* (requests.post raising instead of returning).
HsStatuses == {0, 200, 304, 401, 500}

Texts == {"a", "b"}
Codes == {"c1", "c2"}
NoCode == "None"

\* requests.Response.ok / raise_for_status: an error is a status in 400..599.
ResponseOk(status_code) == ~(400 <= status_code /\ status_code < 600)

NoResult == [n |-> 0, status_code |-> 0, text |-> ""]

Credentials ==
    { [kind |-> "Basic", vanity |-> v, username |-> TRUE, password |-> TRUE,
       client_id |-> FALSE, redirect_uri |-> FALSE] : v \in BOOLEAN }
    \cup
    { [kind |-> "OAuth2", vanity |-> FALSE, username |-> u, password |-> p,
       client_id |-> TRUE, redirect_uri |-> r] :
         u \in BOOLEAN, p \in BOOLEAN, r \in BOOLEAN }

\* Values of the components that are not in use.
NotMade == [kind |-> "none"]
NoUrl == [given |-> FALSE, netloc |-> FALSE, host |-> "", port |-> "absent", path |-> ""]
NoBinding == [host |-> "", port |-> 0, path |-> ""]
NoPkce == [code_verifier |-> "", code_challenge |-> << >>, authorize |-> << >>,
           exchanged |-> ""]

----------------------------------------------------------------------------
(* Outcomes and trace events *)

NoOutcome == [kind |-> "none", exc |-> "", status_code |-> 0, text |-> "", n |-> 0]
Returned(r) ==
    [kind |-> "return", exc |-> "", status_code |-> r.status_code, text |-> r.text,
     n |-> r.n]
Raised(exc, status_code, text) ==
    [kind |-> "raise", exc |-> exc, status_code |-> status_code, text |-> text,
     n |-> 0]
NoExc == Raised("", 0, "")

\* One token request (requests.post to a token endpoint) and its answer.
Post(grant, c, status_code, body) ==
    [grant |-> grant, code |-> c, status_code |-> status_code, body |-> body]

Event(ev, h, r) ==
    [ev |-> ev, handle |-> h, n |-> r.n, status_code |-> r.status_code,
     text |-> r.text]

----------------------------------------------------------------------------
(* Transport handles: requests.Session objects *)

\* Mutant: the new handle is given the token of the handle it replaces.
NewHandle_KeepsToken(scheme, token) ==
    [closed |-> FALSE, scheme |-> scheme,
     token |-> IF session # 0 THEN handles[session].token ELSE token,
     apikey |-> TRUE, user_agent |-> FALSE]

\* A fresh requests.Session with the credentials of one handshake bound in.
\* The token is the one the handshake returned; apikey is auth.api_key.
NewHandle(scheme, token) ==
    [closed |-> FALSE, scheme |-> scheme, token |-> token, apikey |-> TRUE,
     user_agent |-> FALSE]

\* The token a handshake issues: the service issues a fresh one each time.
FreshToken == Len(handles) + 1

\* Mutant: an existing handle is kept instead of being replaced by a new one.
InstalledSession_Reused(hs) == IF session # 0 THEN session ELSE Len(hs) + 1

\* self._session = Session(): the Session's handle after a successful handshake.
InstalledSession(hs) == Len(hs) + 1

\* update_session / _update_session: create the handle, bind the credentials.
\* This is the point where a handshake has succeeded.
UpdateSession(scheme, token) ==
    /\ handles' = Append(handles, NewHandle(scheme, token))
    /\ session' = InstalledSession(handles)
    /\ trace' = Append(trace, Event("connected", InstalledSession(handles), NoResult))

\* SessionContext.__init__: sets the User-Agent header on the wrapped handle.
WithUserAgent(hs, h) == [hs EXCEPT ![h].user_agent = TRUE]

\* _close: the handle is closed ...
HandlesAfterClose(hs, s) == IF s # 0 THEN [hs EXCEPT ![s].closed = TRUE] ELSE hs

\* Mutant: _close closes the handle but keeps referring to it.
SessionAfterClose_Kept(s) == s

\* ... and forgotten.
SessionAfterClose(s) == 0

----------------------------------------------------------------------------
(* Initial state: VisierSession.__init__ *)

\* Everything but the credential, the position and the components aside.
Blank ==
    /\ session = 0
    /\ handles = << >>
    /\ depth = 0
    /\ op = "init"
    /\ ret = "enter"
    /\ num_attempts_left = 0
    /\ is_ok = FALSE
    /\ result = NoResult
    /\ context = 0
    /\ server = FALSE
    /\ flask_thread = FALSE
    /\ alive = 0
    /\ queue = << >>
    /\ served = << >>
    /\ code = NoCode
    /\ pending = NoExc
    /\ pkce = NoPkce
    /\ exit_ex = FALSE
    /\ trace = << >>
    /\ outcome = NoOutcome
    /\ posts = << >>

\* No ResultTable in sight.
NoTable ==
    /\ source = << >>
    /\ consumed = 0
    /\ header = << >>
    /\ gens = << >>
    /\ error_lineno = 0

\* QueryApiClient.HEADER as the class body makes it; nothing sent.
NoHeaders ==
    /\ HEADER = "absent"
    /\ sent = << >>

\* No API client in sight.
NoClient ==
    /\ raise_on_error = FALSE
    /\ last_error = "None"
    /\ run_pos = "idle"
    /\ run_result = [kind |-> "none", exc |-> ""]

Init ==
    /\ auth \in Credentials
    /\ pc = "idle"
    /\ made = NotMade
    /\ provided_url = NoUrl
    /\ binding = NoBinding
    /\ NoTable
    /\ NoHeaders
    /\ NoClient
    /\ Blank

ExecLocals == << num_attempts_left, is_ok, result, context >>
Listener == << server, flask_thread, alive, queue, served, code, pending, pkce >>

\* The locals of execute go out of scope when it returns or raises.
DropExecLocals ==
    /\ num_attempts_left' = 0
    /\ is_ok' = FALSE
    /\ result' = NoResult
    /\ context' = 0

----------------------------------------------------------------------------
(* How _connect hands control back *)

\* _connect returned: __enter__ returns self, execute goes round its loop.
ConnectReturns ==
    /\ IF ret = "enter"
          THEN /\ pc' = "idle"
               /\ depth' = depth + 1
               /\ outcome' = Returned(NoResult)
          ELSE /\ pc' = "ex_loop"
               /\ UNCHANGED << depth, outcome >>
    /\ UNCHANGED ExecLocals

\* Mutant: execute wraps what the reconnect raised in its own error.
Propagated_AsQueryError(e) == [e EXCEPT !.exc = "QueryExecutionError"]

\* `self._connect()` stands in no try block, in __enter__ as in execute:
\* the caller gets the exception object that _connect raised.
Propagated(e) == e

\* _connect raised: neither __enter__ nor execute catches anything.
ConnectRaises(e) ==
    /\ trace' = Append(trace, Event("connect_failed", session, NoResult))
    /\ pc' = "idle"
    /\ outcome' = Propagated(e)
    /\ DropExecLocals
    /\ UNCHANGED depth

----------------------------------------------------------------------------
(* Scoped entry and exit *)

\* __enter__: self._connect()
Enter ==
    /\ pc = "idle"
    /\ depth < MaxDepth
    /\ Len(handles) < MaxHandles
    /\ op' = "enter"
    /\ ret' = "enter"
    /\ pc' = "connect"
    /\ trace' = << Event("begin", session, NoResult), Event("connect", session, NoResult) >>
    /\ outcome' = NoOutcome
    /\ posts' = << >>
    /\ UNCHANGED << Aside, auth, session, handles, depth, ExecLocals, Listener, exit_ex >>

\* __exit__(ex_type, ex_value, trace_back): self._close(), whatever ex_type is.
Exit(ex) ==
    /\ pc = "idle"
    /\ depth > 0
    /\ op' = "exit"
    /\ exit_ex' = ex
    /\ handles' = HandlesAfterClose(handles, session)
    /\ session' = SessionAfterClose(session)
    /\ depth' = depth - 1
    /\ trace' = << Event("begin", session, NoResult) >>
    /\ outcome' = Returned(NoResult)
    /\ posts' = << >>
    /\ UNCHANGED << Aside, auth, pc, ret, ExecLocals, Listener >>

----------------------------------------------------------------------------
(* _connect: the handshake the credential selects *)

\* Mutant: the password grant is chosen when either field is present.
Handshake_EitherField(a) ==
    IF a.kind = "OAuth2"
       THEN IF a.username \/ a.password THEN "oauth_password" ELSE "auth_code"
       ELSE "basic"

\* _connect / _connect_oauth: which handshake runs.
Handshake(a) ==
    IF a.kind = "OAuth2"
       THEN IF a.username /\ a.password THEN "oauth_password" ELSE "auth_code"
       ELSE "basic"

\* _connect_basic, after the POST: the exception it raises, or NoExc.
BasicFailure(a, status_code) ==
    IF status_code = 0 THEN Raised("RequestException", 0, "")
    ELSE IF status_code = 500 /\ ~a.vanity
         THEN Raised("QueryExecutionError", 500, "Vanity name is required")
    ELSE IF ~ResponseOk(status_code) THEN Raised("HTTPError", status_code, "")
    ELSE NoExc

\* Mutant: _request_token without response.raise_for_status().
TokenFailure_NoStatusCheck(status_code, has_token) ==
    IF status_code = 0 THEN Raised("RequestException", 0, "")
    ELSE IF ~has_token THEN Raised("KeyError", 0, "")
    ELSE NoExc

\* _request_token, after the POST: the exception it raises, or NoExc.
\* has_token: the JSON body holds an access_token.
TokenFailure(status_code, has_token) ==
    IF status_code = 0 THEN Raised("RequestException", 0, "")
    ELSE IF ~ResponseOk(status_code) THEN Raised("HTTPError", status_code, "")
    ELSE IF ~has_token THEN Raised("KeyError", 0, "")
    ELSE NoExc

\* The keys of the form the password handshake posts.
BasicBody(a) ==
    {"username", "password"} \cup (IF a.vanity THEN {"vanityName"} ELSE {})

\* The keys of the form _request_token posts: the body its caller built,
\* plus redirect_uri if auth.redirect_uri, whatever the grant.
TokenBody(grant, a) ==
    (IF grant = "password"
        THEN {"grant_type", "client_id", "scope", "username", "password"}
        ELSE {"grant_type", "client_id", "scope", "code", "code_verifier"})
    \cup (IF a.redirect_uri THEN {"redirect_uri"} ELSE {})

\* The query arguments of the authorize URL the browser is opened with.
AuthorizeArgs(a) ==
    {"apikey", "response_type", "client_id", "code_challenge_method",
     "code_challenge"}
    \cup (IF a.redirect_uri THEN {"redirect_uri"} ELSE {})

\* secrets.token_urlsafe(64): a random URL-safe text; two of its values.
Verifiers == {"dBjftJeZ4CVP-mB92K27uhbUJU1p1r_wW1gFWFOEjXk", "verifier-2_abc"}

\* hashlib.sha256(code_verifier.encode()).digest(), written in hex.
Sha256(v) ==
    CASE v = "dBjftJeZ4CVP-mB92K27uhbUJU1p1r_wW1gFWFOEjXk" ->
           "13d31e961a1ad8ec2f16b10c4c982e0876a878ad6df144566ee1894acb70f9c3"
      [] v = "verifier-2_abc" ->
           "5f8d05fc655328ce380eca258ad192a29f59badc22654b542cb1044ceb95b472"

\* base64.urlsafe_b64encode(digest).decode(): the 43 characters that carry
\* the 32 bytes, then the padding characters that fill the last group of 4.
UrlsafeB64encode(d) ==
    CASE d = "13d31e961a1ad8ec2f16b10c4c982e0876a878ad6df144566ee1894acb70f9c3" ->
           << "E9Melhoa2OwvFrEMTJguCHaoeK1t8URWbuGJSstw-cM", "=" >>
      [] d = "5f8d05fc655328ce380eca258ad192a29f59badc22654b542cb1044ceb95b472" ->
           << "X40F_GVTKM44DsolitGSop9ZutwiZUtULLEETOuVtHI", "=" >>

\* Mutant: the padding stays on the challenge.
RStrip_Keeps(t, ch) == t

\* str.rstrip(ch): the trailing run of ch is dropped.
RECURSIVE RStrip(_, _)
RStrip(t, ch) ==
    IF t # << >> /\ t[Len(t)] = ch THEN RStrip(SubSeq(t, 1, Len(t) - 1), ch) ELSE t

\* mk_pkce_pair: (code_verifier, code_challenge)
MkPkcePair(v) ==
    [NoPkce EXCEPT !.code_verifier = v,
                   !.code_challenge = RStrip(UrlsafeB64encode(Sha256(v)), "=")]

\* query_args["code_challenge"] of the authorize URL
AuthorizeChallenge(pair) == pair.code_challenge

\* body["code_verifier"] of the token request built by get_token
ExchangedVerifier(pair) == pair.code_verifier

\* Mutant: _request_token keeps the redirect URI for itself.
AuthAfterTokenRequest_TakesRedirect(a) == [a EXCEPT !.redirect_uri = FALSE]

\* _request_token reads the credential and writes only the body it was
\* handed, a dict of its caller.
AuthAfterTokenRequest(a) == a

\* Mutant: a handshake that fails drops the handle the Session held.
SessionAfterFailure_Cleared(s) == 0

\* self._session is assigned only in update_session / _update_session,
\* which run after the token request has passed raise_for_status: an
\* exception before that leaves the field alone.
SessionAfterFailure(s) == s

\* _connect_basic: one POST to /v1/admin/visierSecureToken.
ConnectBasic(status_code) ==
    /\ pc = "connect"
    /\ Handshake(auth) = "basic"
    /\ IF BasicFailure(auth, status_code) = NoExc
          THEN /\ UpdateSession("cookie", FreshToken)
               /\ ConnectReturns
          ELSE /\ ConnectRaises(BasicFailure(auth, status_code))
               /\ session' = SessionAfterFailure(session)
               /\ UNCHANGED handles
    /\ posts' = Append(posts, Post("basic", NoCode, status_code, BasicBody(auth)))
    /\ UNCHANGED << Aside, auth, op, ret, Listener, exit_ex >>

\* _connect_oauth_password: one POST to /v1/auth/oauth2/token.
ConnectOAuthPassword(status_code, has_token) ==
    /\ pc = "connect"
    /\ Handshake(auth) = "oauth_password"
    /\ IF TokenFailure(status_code, has_token) = NoExc
          THEN /\ UpdateSession("bearer", FreshToken)
               /\ ConnectReturns
          ELSE /\ ConnectRaises(TokenFailure(status_code, has_token))
               /\ session' = SessionAfterFailure(session)
               /\ UNCHANGED handles
    /\ posts' = Append(posts, Post("password", NoCode, status_code,
                                   TokenBody("password", auth)))
    /\ auth' = AuthAfterTokenRequest(auth)
    /\ UNCHANGED << Aside, op, ret, Listener, exit_ex >>

\* _connect_auth_code up to the wait: `with CallbackServer(binding) as svr`
\* starts the listener (make_server raises when it cannot bind), then the
\* browser is opened.
AcStart(bound) ==
  \E pair \in { MkPkcePair(v) : v \in Verifiers } :
    /\ pc = "connect"
    /\ Handshake(auth) = "auth_code"
    /\ IF bound
          THEN /\ server' = TRUE
               /\ flask_thread' = TRUE
               /\ alive' = alive + 1
               /\ queue' = << >>
               /\ served' = << >>
               /\ pc' = "ac_wait"
               /\ pkce' = [pair EXCEPT !.authorize = AuthorizeChallenge(pair)]
               /\ UNCHANGED << trace, outcome, depth, ExecLocals >>
          ELSE /\ ConnectRaises(Raised("OSError", 0, ""))
               /\ UNCHANGED << server, flask_thread, alive, queue, served, pkce >>
    /\ UNCHANGED << Aside, auth, session, handles, op, ret, code, pending, exit_ex,
                    posts >>

\* CallbackServer.stop: if self.server: shutdown(), join(), then both
\* references are cleared; nothing happens when no server is held.
ServerAfterStop(srv) == FALSE

\* Mutant: stop() leaves the thread reference in place.
ThreadAfterStop_NotCleared(srv, th) == th

ThreadAfterStop(srv, th) == IF srv THEN FALSE ELSE th

\* Mutant: stop() returns without joining the serving thread, which may
\* still be running.
AliveAfterStop_NoJoin(srv, n) == n

\* shutdown() ends serve_forever and join() waits for the thread to end.
AliveAfterStop(srv, n) == IF srv THEN 0 ELSE n

\* Mutant: the queue hands out the newest item first.
QueuePut_Lifo(q, c) == << c >> \o q

\* queue.Queue(): put appends, get takes the oldest item; no size limit.
QueuePut(q, c) == Append(q, c)

\* CallbackServer.callback, on the serving thread: request.args.get("code")
\* is None when the request has no code parameter.
Callback(c) ==
    /\ server
    /\ Len(served) < MaxQueue
    /\ queue' = QueuePut(queue, c)
    /\ served' = Append(served, c)
    /\ UNCHANGED << Aside, auth, session, handles, depth, pc, op, ret, ExecLocals, server,
                    flask_thread, alive, code, pending, pkce, exit_ex, trace, outcome,
                    posts >>

\* svr.queue.get(block=True, timeout=...) returns the oldest item.
AcGet ==
    /\ pc = "ac_wait"
    /\ queue # << >>
    /\ code' = Head(queue)
    /\ queue' = Tail(queue)
    /\ pc' = "ac_token"
    /\ UNCHANGED << Aside, auth, session, handles, depth, op, ret, ExecLocals, server,
                    flask_thread, alive, served, pending, pkce, exit_ex, trace, outcome,
                    posts >>

\* Mutant: the wait has no timeout.
AcTimeout_Blocks == FALSE /\ UNCHANGED vars

\* svr.queue.get raises Empty when the timeout expires: OAuthConnectError.
AcTimeout ==
    /\ pc = "ac_wait"
    /\ queue = << >>
    /\ pending' = Raised("OAuthConnectError", 0, "Timed out waiting for OAuth2 auth code")
    /\ pc' = "ac_exit"
    /\ UNCHANGED << Aside, auth, session, handles, depth, op, ret, ExecLocals, server,
                    flask_thread, alive, queue, served, code, pkce, exit_ex, trace,
                    outcome, posts >>

\* self._update_session(get_token(code, code_verifier), auth.api_key)
AcToken(status_code, has_token) ==
    /\ pc = "ac_token"
    /\ IF TokenFailure(status_code, has_token) = NoExc
          THEN /\ UpdateSession("bearer", FreshToken)
               /\ UNCHANGED pending
          ELSE /\ pending' = TokenFailure(status_code, has_token)
               /\ session' = SessionAfterFailure(session)
               /\ UNCHANGED << handles, trace >>
    /\ pc' = "ac_exit"
    /\ posts' = Append(posts, Post("authorization_code", code, status_code,
                                   TokenBody("authorization_code", auth)))
    /\ pkce' = [pkce EXCEPT !.exchanged = ExchangedVerifier(pkce)]
    /\ auth' = AuthAfterTokenRequest(auth)
    /\ UNCHANGED << Aside, depth, op, ret, ExecLocals, server, flask_thread, alive,
                    queue, served, code, exit_ex, outcome >>

\* CallbackServer.__exit__ -> stop(): shutdown, join, clear; then the with
\* statement lets the exception in flight (if any) go on.
AcExit ==
    /\ pc = "ac_exit"
    /\ server' = ServerAfterStop(server)
    /\ flask_thread' = ThreadAfterStop(server, flask_thread)
    /\ alive' = AliveAfterStop(server, alive)
    /\ queue' = << >>
    /\ served' = << >>
    /\ code' = NoCode
    /\ pending' = NoExc
    /\ pkce' = NoPkce
    /\ IF pending = NoExc
          THEN ConnectReturns /\ UNCHANGED trace
          ELSE ConnectRaises(pending)
    /\ UNCHANGED << Aside, auth, session, handles, op, ret, exit_ex, posts >>

----------------------------------------------------------------------------
(* execute: the retrying execution primitive *)

InitialAttempts == 2

\* Mutant: the loop goes on while attempts are left, even after a success.
LoopContinues_IgnoresOk(ok, left) == left > 0

\* while not is_ok and num_attempts_left > 0
LoopContinues(ok, left) == ~ok /\ left > 0

\* Mutant: the context of the first attempt is reused for the retry.
ContextHandle_Reused(current, previous) == IF previous # 0 THEN previous ELSE current

\* SessionContext(self._session, ...): the handle the new context wraps.
ContextHandle(current, previous) == current

\* Mutant: a 401 reconnects even when no attempt is left.
ShouldReconnect_NoAttemptCheck(status_code, left) == status_code = 401

\* Mutant: any failure reconnects while an attempt is left.
ShouldReconnect_AnyFailure(status_code, left) == left > 0

\* if result.status_code == 401 and num_attempts_left > 0: self._connect()
ShouldReconnect(status_code, left) == status_code = 401 /\ left > 0

\* Mutant: the last attempt is treated as a failure whatever its response.
IsFailure_WhenExhausted(ok, left) == ~ok \/ left = 0

\* if not is_ok: the branch that reconnects or raises is taken
IsFailure(ok, left) == ~ok

\* Number of invocations of call_function so far in this execute call.
Invocations == Cardinality({ i \in 1..Len(trace) : trace[i].ev = "call" })

ExecuteBegin ==
    /\ pc = "idle"
    /\ Len(handles) < MaxHandles
    /\ op' = "execute"
    /\ num_attempts_left' = InitialAttempts
    /\ is_ok' = FALSE
    /\ result' = NoResult
    /\ context' = 0
    /\ pc' = "ex_loop"
    /\ trace' = << Event("begin", session, NoResult) >>
    /\ outcome' = NoOutcome
    /\ posts' = << >>
    /\ UNCHANGED << Aside, auth, session, handles, depth, ret, Listener, exit_ex >>

\* The loop ends: return result.
ExReturn ==
    /\ pc = "ex_loop"
    /\ ~LoopContinues(is_ok, num_attempts_left)
    /\ outcome' = Returned(result)
    /\ pc' = "idle"
    /\ DropExecLocals
    /\ UNCHANGED << Aside, auth, session, handles, depth, op, ret, Listener, exit_ex, trace,
                    posts >>

\* SessionContext.__init__ on a Session that holds no handle:
\* self._session.headers raises AttributeError (None has no headers).
ExContextFails ==
    /\ pc = "ex_loop"
    /\ LoopContinues(is_ok, num_attempts_left)
    /\ ContextHandle(session, context) = 0
    /\ outcome' = Raised("AttributeError", 0, "")
    /\ pc' = "idle"
    /\ DropExecLocals
    /\ UNCHANGED << Aside, auth, session, handles, depth, op, ret, Listener, exit_ex, trace,
                    posts >>

\* One round of the loop: build the context, call the function, which
\* returns a response with the given status and text, and act on it.
ExAttempt(status_code, text) ==
    LET h == ContextHandle(session, context)
        r == [n |-> Invocations + 1, status_code |-> status_code, text |-> text]
        left == num_attempts_left - 1
        ok == ResponseOk(status_code)
        called == Append(trace, Event("call", h, r))
    IN  /\ pc = "ex_loop"
        /\ LoopContinues(is_ok, num_attempts_left)
        /\ h # 0
        /\ handles' = WithUserAgent(handles, h)
        /\ IF ~IsFailure(ok, left)
              THEN /\ pc' = "ex_loop"
                   /\ trace' = called
                   /\ context' = h
                   /\ result' = r
                   /\ num_attempts_left' = left
                   /\ is_ok' = ok
                   /\ UNCHANGED << ret, outcome, posts >>
              ELSE IF ShouldReconnect(status_code, left)
              THEN /\ pc' = "connect"
                   /\ ret' = "execute"
                   /\ trace' = Append(called, Event("connect", session, NoResult))
                   /\ posts' = << >>
                   /\ context' = h
                   /\ result' = r
                   /\ num_attempts_left' = left
                   /\ is_ok' = ok
                   /\ UNCHANGED outcome
              ELSE /\ pc' = "idle"
                   /\ trace' = called
                   /\ outcome' = Raised("QueryExecutionError", status_code, text)
                   /\ DropExecLocals
                   /\ UNCHANGED << ret, posts >>
        /\ UNCHANGED << Aside, auth, session, depth, op, Listener, exit_ex >>

----------------------------------------------------------------------------

Next ==
    \/ Enter
    \/ \E ex \in BOOLEAN : Exit(ex)
    \/ \E s \in HsStatuses : ConnectBasic(s)
    \/ \E s \in HsStatuses, t \in BOOLEAN : ConnectOAuthPassword(s, t)
    \/ \E b \in BOOLEAN : AcStart(b)
    \/ \E c \in Codes \cup {NoCode} : Callback(c)
    \/ AcGet
    \/ AcTimeout
    \/ \E s \in HsStatuses, t \in BOOLEAN : AcToken(s, t)
    \/ AcExit
    \/ ExecuteBegin
    \/ ExReturn
    \/ ExContextFails
    \/ \E s \in Statuses, t \in Texts : ExAttempt(s, t)

Spec == Init /\ [][Next]_vars

----------------------------------------------------------------------------
(* Observations on the operation in progress *)

Calls == SelectSeq(trace, LAMBDA e : e.ev = "call")
Reconnects == Cardinality({ i \in 1..Len(trace) : trace[i].ev = "connect" })
Last(sq) == sq[Len(sq)]
Is2xx(status_code) == 200 <= status_code /\ status_code < 300
IsError(status_code) == 400 <= status_code /\ status_code < 600
InExecute == op = "execute"
ExecuteDone == op = "execute" /\ pc = "idle"
SessionAtBegin == trace[1].handle
RaisedQEEOf(r) ==
    /\ outcome.kind = "raise"
    /\ outcome.exc = "QueryExecutionError"
    /\ outcome.status_code = r.status_code
    /\ outcome.text = r.text
ReturnedResponse(r) ==
    /\ outcome.kind = "return"
    /\ outcome.n = r.n
    /\ outcome.status_code = r.status_code
    /\ outcome.text = r.text

----------------------------------------------------------------------------
(* C1: whatever the function returns, one execute call invokes it at most
   twice and reconnects at most once. *)
C1_AtMostOneRetry ==
    InExecute => Len(Calls) <= 2 /\ Reconnects <= 1

C1_Witness ==
    ExecuteDone /\ Len(Calls) = 2 /\ Reconnects = 1

(* C2: when the function returned 401 on its first invocation and a 2xx
   response on its second, execute reconnected exactly once, invoked the
   function exactly twice, raised nothing and returned the second response. *)
C2_RetrySucceeds ==
    (ExecuteDone /\ Len(Calls) >= 2 /\ Calls[1].status_code = 401
        /\ Is2xx(Calls[2].status_code))
    => /\ Len(Calls) = 2
       /\ Reconnects = 1
       /\ ReturnedResponse(Calls[2])
       /\ Calls[2].n = 2

C2_Witness ==
    /\ ExecuteDone /\ Len(Calls) = 2
    /\ Calls[1].status_code = 401 /\ Calls[1].text = "a"
    /\ Calls[2].status_code = 200 /\ Calls[2].text = "b"
    /\ outcome.kind = "return"

(* C3 as stated: when the function returned 401 and then any non-2xx
   response, execute raises QueryExecutionError with the status and body of
   the second response, after exactly one reconnect. *)
C3_AsStated ==
    (ExecuteDone /\ Len(Calls) >= 2 /\ Calls[1].status_code = 401
        /\ ~Is2xx(Calls[2].status_code))
    => /\ RaisedQEEOf(Calls[2])
       /\ Reconnects = 1

(* C3 amended: when the function returned 401 and then an error status
   (400..599, 401 included), execute raises QueryExecutionError with the
   status and body of the second response, the function was invoked exactly
   twice and a reconnect was attempted exactly once. *)
C3_SecondFailureRaises ==
    (ExecuteDone /\ Len(Calls) >= 2 /\ Calls[1].status_code = 401
        /\ IsError(Calls[2].status_code))
    => /\ RaisedQEEOf(Calls[2])
       /\ Len(Calls) = 2
       /\ Reconnects = 1
       /\ Last(trace).ev = "call"

C3_Witness ==
    /\ ExecuteDone /\ Len(Calls) = 2
    /\ Calls[1].status_code = 401 /\ Calls[1].text = "a"
    /\ Calls[2].status_code = 401 /\ Calls[2].text = "b"
    /\ outcome.exc = "QueryExecutionError" /\ outcome.text = "b"

(* C4 as stated: when the first response is non-2xx and not 401, execute
   raises QueryExecutionError with its status and body, after one invocation
   and no reconnect. *)
C4_AsStated ==
    (ExecuteDone /\ Len(Calls) >= 1 /\ Calls[1].status_code # 401
        /\ ~Is2xx(Calls[1].status_code))
    => /\ RaisedQEEOf(Calls[1])
       /\ Len(Calls) = 1
       /\ Reconnects = 0

(* C4 amended: when the first response is an error status (400..599) other
   than 401, execute raises QueryExecutionError with its status and body,
   after exactly one invocation and no reconnect. *)
C4_OtherFailureRaises ==
    (InExecute /\ Len(Calls) >= 1 /\ Calls[1].status_code # 401
        /\ IsError(Calls[1].status_code))
    => /\ pc = "idle"
       /\ RaisedQEEOf(Calls[1])
       /\ Len(Calls) = 1
       /\ Reconnects = 0

C4_Witness ==
    /\ ExecuteDone /\ Len(Calls) = 1 /\ Calls[1].status_code = 403
    /\ outcome.exc = "QueryExecutionError" /\ outcome.status_code = 403

(* C5: when the first response is 2xx, execute returns exactly that
   response after a single invocation, without reconnecting, and the Session
   holds the same transport handle as before the call. *)
C5_SuccessReturns ==
    (ExecuteDone /\ Len(Calls) >= 1 /\ Is2xx(Calls[1].status_code))
    => /\ ReturnedResponse(Calls[1])
       /\ Calls[1].n = 1
       /\ Len(Calls) = 1
       /\ Reconnects = 0
       /\ session = SessionAtBegin
       /\ Calls[1].handle = SessionAtBegin

C5_Witness ==
    /\ ExecuteDone /\ Len(Calls) = 1 /\ Calls[1].status_code = 200
    /\ outcome.kind = "return" /\ session # 0

(* C6 as stated: an execute call that starts on a Session without a handle
   performs the connect handshake first, and only then invokes the function;
   the function never sees a context without a handle. *)
C6_AsStated ==
    /\ (ExecuteDone /\ SessionAtBegin = 0)
          => (Len(trace) >= 2 /\ trace[2].ev = "connect")
    /\ \A i \in 1..Len(trace) : trace[i].ev = "call" => trace[i].handle # 0

(* C7: within one execute call a triggered reconnect has completed before
   the retry invocation, and the retry's context wraps the handle that
   reconnect produced, not the one that received the 401. *)
C7_ReconnectPrecedesRetry ==
    InExecute =>
        \A k \in 1..Len(trace) :
            (trace[k].ev = "call" /\ trace[k].n >= 2)
            => /\ k >= 4
               /\ trace[k-3].ev = "call" /\ trace[k-3].status_code = 401
               /\ trace[k-2].ev = "connect"
               /\ trace[k-1].ev = "connected"
               /\ trace[k].handle = trace[k-1].handle
               /\ trace[k].handle # trace[k-3].handle

C7_Witness ==
    /\ InExecute /\ Len(Calls) = 2
    /\ Calls[2].handle # Calls[1].handle

(* C8 as stated: every QueryExecutionError that leaves execute carries the
   status and body of the last response the function returned, and is raised
   right after that response (never from inside the reconnect). *)
C8_AsStated ==
    (ExecuteDone /\ outcome.kind = "raise" /\ outcome.exc = "QueryExecutionError")
    => /\ Last(trace).ev = "call"
       /\ RaisedQEEOf(Last(trace))
       /\ (Last(trace).status_code # 401 \/ Len(Calls) = 2)

(* C9: lifecycle of the Session's transport handle over any sequence of
   scoped entry, execute and scoped exit: the Session holds no handle or one
   handle it created; none before the first successful handshake; after a
   successful handshake it holds the open handle that handshake produced; the
   handle becomes absent only by scoped exit, which closes it whether or not
   an exception is in flight, and which changes nothing when the Session
   holds no handle. *)
C9_Step ==
    /\ session' \in 0..Len(handles')
    /\ (handles' = << >> => session' = 0)
    /\ (Len(trace') > Len(trace) /\ Last(trace').ev = "connected")
          => /\ session' # 0
             /\ session' = Last(trace').handle
             /\ ~handles'[session'].closed
    /\ (session # 0 /\ session' = 0) => (op' = "exit" /\ depth' = depth - 1)
    /\ (op' = "exit" /\ depth' = depth - 1)
          => /\ session' = 0
             /\ session # 0 => handles'[session].closed
             /\ session = 0 => handles' = handles
             /\ \A h \in 1..Len(handles) : h # session => handles'[h] = handles[h]

C9_Lifecycle == [][C9_Step]_vars

C9_Witness ==
    /\ op = "exit" /\ exit_ex
    /\ SessionAtBegin # 0 /\ handles[SessionAtBegin].closed
    /\ session = 0

(* C10 as stated: on a 401 on the first attempt the Session no longer holds
   the handle that received the 401, and holds no handle at all until the
   fresh handshake has succeeded. *)
C10_AsStated ==
    (InExecute /\ Len(Calls) >= 1 /\ Calls[1].status_code = 401)
    => /\ trace[3].ev = "connect"
       /\ session # Calls[1].handle
       /\ (Len(trace) < 4 \/ trace[4].ev # "connected") => session = 0

(* C10 amended: on a 401 on the first attempt the Session immediately
   performs a fresh handshake while still holding the handle that received
   the 401; it holds another handle (the open one the handshake produced)
   only once that handshake has succeeded, and after a failed handshake it
   still holds the old handle. *)
C10_ReconnectReplacesOnSuccess ==
    (InExecute /\ Len(Calls) >= 1 /\ Calls[1].status_code = 401)
    => /\ trace[3].ev = "connect"
       /\ IF Len(trace) >= 4 /\ trace[4].ev = "connected"
             THEN /\ session = trace[4].handle
                  /\ session # Calls[1].handle
                  /\ ~handles[session].closed
             ELSE session = Calls[1].handle

C10_Witness ==
    /\ ExecuteDone /\ Len(Calls) = 1 /\ Calls[1].status_code = 401
    /\ Last(trace).ev = "connect_failed"
    /\ session = Calls[1].handle

----------------------------------------------------------------------------
(* Observations on the connect attempt of the operation in progress *)

AcStates == {"ac_wait", "ac_token", "ac_exit"}
Connecting == pc = "connect" \/ pc \in AcStates
ConnectStarted == \E i \in 1..Len(trace) : trace[i].ev = "connect"
ConnectEnded == ConnectStarted /\ ~Connecting
ConnectSucceeded == \E i \in 1..Len(trace) : trace[i].ev = "connected"
ConnectFailed ==
    /\ Len(trace) > 0 /\ Last(trace).ev = "connect_failed"
    /\ pc = "idle" /\ outcome.kind = "raise"
Answered(p) == p.status_code # 0
\* The wait of _connect_auth_code has returned an item of the queue.
Got == pc = "ac_token" \/ (pc = "ac_exit" /\ posts # << >>)

(* C11 as stated: a connect attempt sends at most one token request, and a
   non-2xx answer to it aborts the attempt with an error. *)
C11_AsStated ==
    /\ Len(posts) <= 1
    /\ \A i \in 1..Len(posts) :
          (Answered(posts[i]) /\ ~Is2xx(posts[i].status_code))
          => /\ ~ConnectSucceeded
             /\ ConnectEnded => ConnectFailed

(* C11 amended: a connect attempt (password handshake, OAuth2 password
   grant, authorization-code exchange) sends at most one token request; an
   error answer to it (status 400..599) aborts the attempt with an error and
   is never retried inside connect. *)
C11_OneTokenRequest ==
    /\ Len(posts) <= 1
    /\ \A i \in 1..Len(posts) :
          IsError(posts[i].status_code)
          => /\ ~ConnectSucceeded
             /\ ConnectEnded => ConnectFailed

C11_Witness ==
    /\ ConnectEnded /\ ConnectFailed
    /\ Len(posts) = 1 /\ posts[1].grant = "authorization_code"
    /\ posts[1].status_code = 401
    /\ outcome.exc = "HTTPError"

(* C12 as stated: an error answer to the password handshake raises a connect
   error, never a query-execution error: the distinguished vanity-required
   one exactly for a 500 without a vanity name, the generic one otherwise. *)
C12_AsStated ==
    (ConnectEnded /\ posts # << >> /\ posts[1].grant = "basic"
        /\ IsError(posts[1].status_code))
    => /\ ConnectFailed
       /\ outcome.exc # "QueryExecutionError"
       /\ (posts[1].status_code = 500 /\ ~auth.vanity)
             <=> outcome.text = "Vanity name is required"

(* C13: the handshake is a function of the credential: the password
   handshake for a password credential, the password grant for an OAuth2
   credential with both username and password, the authorization-code grant
   for every other OAuth2 credential; one handshake runs per connect. *)
C13_Expected ==
    IF auth.kind = "Basic" THEN "basic"
    ELSE IF auth.username /\ auth.password THEN "password"
    ELSE "authorization_code"

C13_HandshakeSelection ==
    /\ \A i \in 1..Len(posts) : posts[i].grant = C13_Expected
    /\ (server \/ pc \in AcStates) => C13_Expected = "authorization_code"
    /\ ConnectEnded
          => \/ Len(posts) = 1
             \/ /\ C13_Expected = "authorization_code"
                /\ posts = << >>
                /\ ConnectFailed
                /\ outcome.exc \in {"OAuthConnectError", "OSError"}

C13_Witness ==
    /\ auth.kind = "OAuth2" /\ auth.username /\ ~auth.password
    /\ ConnectEnded /\ ConnectSucceeded
    /\ Len(posts) = 1 /\ posts[1].grant = "authorization_code"

(* C14: in the authorization-code flow the listener serves while the connect
   attempt waits and exchanges the code, and on every exit path of the
   attempt (success, timeout, failed token exchange) its server is shut down
   and its thread has terminated. *)
C14_ListenerStopped ==
    /\ pc \in {"ac_wait", "ac_token"} => server /\ flask_thread /\ alive = 1
    /\ pc \notin AcStates => ~server /\ ~flask_thread /\ alive = 0

C14_Witness ==
    /\ ConnectEnded /\ ConnectFailed
    /\ Len(posts) = 1 /\ posts[1].grant = "authorization_code"
    /\ outcome.exc = "HTTPError"
    /\ ~server /\ ~flask_thread /\ alive = 0

(* C15: the wait for the authorization code always ends: with an empty queue
   the timeout can expire; the attempt then fails with OAuthConnectError, no
   token request was sent, the Session holds the handle it held before, and
   the listener is stopped afterwards. *)
C15_TimeoutEndsWait ==
    /\ pc = "ac_wait" => (ENABLED AcGet \/ ENABLED AcTimeout)
    /\ (pc = "ac_wait" /\ queue = << >>) => ENABLED AcTimeout
    /\ pending.exc = "OAuthConnectError"
          => /\ pc = "ac_exit"
             /\ posts = << >>
             /\ session = SessionAtBegin
             /\ ~ConnectSucceeded
    /\ (pc = "idle" /\ outcome.exc = "OAuthConnectError")
          => /\ ConnectFailed
             /\ posts = << >>
             /\ session = SessionAtBegin
             /\ ~ConnectSucceeded
             /\ ~server /\ alive = 0

C15_Witness ==
    /\ op = "execute" /\ pc = "idle" /\ outcome.exc = "OAuthConnectError"
    /\ session # 0 /\ ~server

(* C16: when the first callback request served while the connect attempt
   waits carries code=c, exactly c is on the queue, once; the wait cannot
   time out any more and returns c; and c is the code of the token request. *)
C16_CodeHandoff ==
    (pc \in AcStates /\ served # << >> /\ served[1] \in Codes)
    => /\ pc = "ac_wait"
          => /\ queue = served
             /\ ENABLED AcGet
             /\ ~ENABLED AcTimeout
       /\ Got => code = served[1] /\ queue = Tail(served)
       /\ \A i \in 1..Len(posts) : posts[i].code = served[1]

C16_Witness ==
    /\ pc = "ac_exit" /\ served = << "c2" >> /\ queue = << >>
    /\ Len(posts) = 1 /\ posts[1].code = "c2"

(* C17 as stated: the queue never holds more than one undelivered code. *)
C17_AsStated ==
    Len(queue) <= 1

(* C17 amended: the listener's delivery queue is an unbounded FIFO, not a
   single slot: every callback request served during a listener lifetime
   puts one item on it, so it can hold more than one undelivered code, and
   the items are read in arrival order. *)
C17_FifoQueue ==
    /\ server => served = (IF Got THEN << code >> ELSE << >>) \o queue
    /\ ~server => queue = << >>

C17_Witness ==
    /\ pc = "ac_wait" /\ Len(queue) = 2 /\ queue[1] # queue[2]

----------------------------------------------------------------------------
(* CallbackBinding: the callback URL and its components *)

DefaultHost == "localhost"
DefaultPort == 5000
DefaultPath == "/oauth2/callback"
MaxPort == 65535
NoPort == -1

\* The callback URL: None (given FALSE), or a text by its parts: "//" host
\* [":" port] path when netloc is TRUE, the path alone otherwise. port
\* "absent": no colon.
HostTexts == {"", "localhost", "Example.COM"}
PortTexts == {"absent", "", "0", "8080", "70000", "x"}
Paths == {"", "/", "/cb"}
Urls ==
    {NoUrl}
    \cup { [given |-> TRUE, netloc |-> FALSE, host |-> "", port |-> "absent",
             path |-> p] :
             p \in Paths }
    \cup { [given |-> TRUE, netloc |-> TRUE, host |-> h, port |-> n, path |-> p] :
             h \in HostTexts, n \in PortTexts, p \in Paths }

\* urlparse(url).hostname: the host in lower case, None (here "") if empty.
Lower(h) == IF h = "Example.COM" THEN "example.com" ELSE h
Hostname(url) == IF url.netloc THEN Lower(url.host) ELSE ""

\* urlparse(url).port: int(text) of the digits after the colon, None without
\* them; ValueError for anything but digits and for a number above 65535.
Digits == [t \in {"0", "8080", "70000"} |->
              IF t = "0" THEN 0 ELSE IF t = "8080" THEN 8080 ELSE 70000]
PortIsInvalid(url) ==
    /\ url.netloc
    /\ url.port \notin {"absent", ""}
    /\ url.port \in DOMAIN Digits => Digits[url.port] > MaxPort
Port(url) ==
    IF ~url.netloc \/ url.port \in {"absent", ""}
       THEN NoPort
       ELSE Digits[url.port]

Path(url) == url.path

\* result.port or 5000: None and 0 are both falsy.
PortOrDefault(n) == IF n = NoPort \/ n = 0 THEN DefaultPort ELSE n

\* CallbackBinding.__init__, when urlparse(...).port does not raise.
CallbackBinding(url) ==
    [host |-> IF Hostname(url) = "" THEN DefaultHost ELSE Hostname(url),
     port |-> PortOrDefault(Port(url)),
     path |-> IF Path(url) = "" THEN DefaultPath ELSE Path(url)]

----------------------------------------------------------------------------
(* CallbackServer used on its own: start, stop, scoped use *)

ListenerRest ==
    << auth, session, handles, depth, ret, ExecLocals, pending, pkce, trace, posts,
       made, provided_url, TableVars, HeaderVars, ApiVars >>

\* binding = CallbackBinding(provided_url); svr = CallbackServer(binding)
LBind ==
    /\ pc = "l_new"
    /\ op' = "bind"
    /\ IF PortIsInvalid(provided_url)
          THEN /\ pc' = "l_failed"
               /\ outcome' = Raised("ValueError", 0, "")
               /\ UNCHANGED binding
          ELSE /\ pc' = "l_made"
               /\ outcome' = Returned(NoResult)
               /\ binding' = CallbackBinding(provided_url)
    /\ UNCHANGED << ListenerRest, server, flask_thread, alive, queue, served, code,
                    exit_ex >>

\* start(): make_server raises OSError when it cannot bind, which is always
\* so while this listener's own server holds the port; then nothing is
\* assigned. Otherwise the server is kept and its thread started.
StartListener(bound) ==
    IF bound /\ ~server
       THEN /\ server' = TRUE
            /\ flask_thread' = TRUE
            /\ alive' = alive + 1
       ELSE UNCHANGED << server, flask_thread, alive >>

\* stop()
StopListener ==
    /\ server' = ServerAfterStop(server)
    /\ flask_thread' = ThreadAfterStop(server, flask_thread)
    /\ alive' = AliveAfterStop(server, alive)

LStart(bound) ==
    /\ pc \in {"l_made", "l_scope"}
    /\ StartListener(bound)
    /\ op' = "start"
    /\ outcome' = IF bound /\ ~server THEN Returned(NoResult)
                                      ELSE Raised("OSError", 0, "")
    /\ UNCHANGED << ListenerRest, binding, pc, queue, served, code, exit_ex >>

LStop ==
    /\ pc \in {"l_made", "l_scope"}
    /\ StopListener
    /\ op' = "stop"
    /\ outcome' = Returned(NoResult)
    /\ UNCHANGED << ListenerRest, binding, pc, queue, served, code, exit_ex >>

\* with svr: __enter__ -> start(); the body is entered if start returned.
LEnter(bound) ==
    /\ pc = "l_made"
    /\ StartListener(bound)
    /\ op' = "enter"
    /\ IF bound /\ ~server
          THEN pc' = "l_scope" /\ outcome' = Returned(NoResult)
          ELSE pc' = pc /\ outcome' = Raised("OSError", 0, "")
    /\ UNCHANGED << ListenerRest, binding, queue, served, code, exit_ex >>

\* The body ends, normally or with an exception in flight: __exit__ ->
\* stop(); __exit__ returns None, so the exception goes on.
LExit(ex) ==
    /\ pc = "l_scope"
    /\ StopListener
    /\ op' = "exit"
    /\ exit_ex' = ex
    /\ pc' = "l_made"
    /\ outcome' = IF ex THEN Raised("BodyError", 0, "") ELSE Returned(NoResult)
    /\ UNCHANGED << ListenerRest, binding, queue, served, code >>

\* svr.queue.get() by the foreground, when an item is there.
LGet ==
    /\ pc \in {"l_made", "l_scope"}
    /\ queue # << >>
    /\ code' = Head(queue)
    /\ queue' = Tail(queue)
    /\ UNCHANGED << ListenerRest, binding, pc, op, outcome, server, flask_thread,
                    alive, served, exit_ex >>

InitListener ==
    /\ auth = [kind |-> "OAuth2", vanity |-> FALSE, username |-> FALSE,
               password |-> FALSE, client_id |-> TRUE, redirect_uri |-> FALSE]
    /\ pc = "l_new"
    /\ made = NotMade
    /\ provided_url \in Urls
    /\ binding = NoBinding
    /\ NoTable
    /\ NoHeaders
    /\ NoClient
    /\ Blank

NextListener ==
    \/ LBind
    \/ \E bound \in BOOLEAN : LStart(bound)
    \/ LStop
    \/ \E bound \in BOOLEAN : LEnter(bound)
    \/ \E ex \in BOOLEAN : LExit(ex)
    \/ \E c \in Codes \cup {NoCode} : Callback(c)
    \/ LGet

SpecListener == InitListener /\ [][NextListener]_vars

(* C18: start() begins serving on exactly one background thread; stop()
   returns with the server shut down, that thread terminated and both
   references cleared; stop() on a listener that is not serving changes
   nothing; the same holds when stop runs through the scoped exit, with or
   without an exception in flight. *)
C18_Step ==
    /\ server' <=> flask_thread'
    /\ server' <=> alive' = 1
    /\ ~server' <=> alive' = 0
    /\ (~server /\ server') => (flask_thread' /\ alive' = 1)
    /\ (LStop \/ \E ex \in BOOLEAN : LExit(ex))
          => /\ ~server' /\ ~flask_thread' /\ alive' = 0
             /\ ~server => UNCHANGED << server, flask_thread, alive, queue, served >>

C18_StartStop == [][C18_Step]_vars

C18_Witness ==
    /\ op = "exit" /\ exit_ex /\ outcome.exc = "BodyError"
    /\ served # << >>
    /\ ~server /\ ~flask_thread /\ alive = 0

(* C19 as stated: the binding takes host, port and path from the callback
   URL and substitutes localhost, 5000 and /oauth2/callback independently
   for each component that is absent; a component present in the URL is
   never replaced by its default. *)
C19_AsStated ==
    pc \in {"l_made", "l_scope"}
    => /\ binding.host = IF Hostname(provided_url) = "" THEN DefaultHost
                         ELSE Hostname(provided_url)
       /\ binding.port = IF Port(provided_url) = NoPort THEN DefaultPort
                         ELSE Port(provided_url)
       /\ binding.path = IF Path(provided_url) = "" THEN DefaultPath
                         ELSE Path(provided_url)

----------------------------------------------------------------------------
(* Credential constructors: Authentication, Basic, OAuth2 *)

\* What a constructor call gives for one parameter: nothing ("omitted"),
\* None, the empty string, or a non-empty string.
ArgValues == {"omitted", "None", "", "v"}
Truthy(x) == x \notin {"None", ""}

BasicParams ==
    {"username", "password", "api_key", "host", "vanity", "target_tenant_id"}
OAuth2Params ==
    {"host", "api_key", "client_id", "client_secret", "username", "password",
     "redirect_uri", "target_tenant_id"}
Params(kind) == IF kind = "Basic" THEN BasicParams ELSE OAuth2Params
AllParams == BasicParams \cup OAuth2Params

\* Parameters declared with a default (= None).
WithDefault == {"vanity", "target_tenant_id", "redirect_uri"}

\* The calls of a constructor: one value for each of its parameters.
ArgsOf(kind) ==
    { [f \in AllParams |-> IF f \in Params(kind) THEN a[f] ELSE "omitted"] :
        a \in [Params(kind) -> ArgValues] }

\* Python binds the arguments first: a parameter without a default that
\* gets no argument is a TypeError.
MissingArgument(kind, args) ==
    \E f \in Params(kind) \ WithDefault : args[f] = "omitted"

\* The value a parameter is bound to.
Arg(args, f) == IF args[f] = "omitted" THEN "None" ELSE args[f]

\* Authentication.__init__: if not api_key or not host: raise ValueError
AuthenticationInit(args) ==
    IF ~Truthy(Arg(args, "api_key")) \/ ~Truthy(Arg(args, "host"))
       THEN "ValueError" ELSE "built"

\* Basic.__init__: super().__init__, then the username/password check.
BasicInit(args) ==
    IF MissingArgument("Basic", args) THEN "TypeError"
    ELSE IF AuthenticationInit(args) # "built" THEN AuthenticationInit(args)
    ELSE IF ~Truthy(Arg(args, "username")) \/ ~Truthy(Arg(args, "password"))
       THEN "ValueError"
    ELSE "built"

\* OAuth2.__init__: super().__init__, then the client_id check.
OAuth2Init(args) ==
    IF MissingArgument("OAuth2", args) THEN "TypeError"
    ELSE IF AuthenticationInit(args) # "built" THEN AuthenticationInit(args)
    ELSE IF ~Truthy(Arg(args, "client_id")) THEN "ValueError"
    ELSE "built"

\* The fields the message of the error names. The three ValueError texts
\* are fixed: "provide host and api_key", "provide username, password,
\* api_key, and host", "provide host, api_key and client_id". Python's
\* TypeError names the parameters that got no argument.
AuthenticationNamed == {"host", "api_key"}
BasicNamed(args) ==
    IF MissingArgument("Basic", args)
       THEN { f \in BasicParams \ WithDefault : args[f] = "omitted" }
    ELSE IF AuthenticationInit(args) # "built" THEN AuthenticationNamed
    ELSE IF BasicInit(args) # "built"
       THEN {"username", "password", "api_key", "host"}
    ELSE {}
OAuth2Named(args) ==
    IF MissingArgument("OAuth2", args)
       THEN { f \in OAuth2Params \ WithDefault : args[f] = "omitted" }
    ELSE IF AuthenticationInit(args) # "built" THEN AuthenticationNamed
    ELSE IF OAuth2Init(args) # "built" THEN {"host", "api_key", "client_id"}
    ELSE {}

CredRest ==
    << auth, session, handles, depth, ret, ExecLocals, Listener, exit_ex, trace,
       posts, provided_url, binding, TableVars, HeaderVars, ApiVars >>

MakeBasic ==
    /\ pc = "c_new" /\ made.kind = "Basic"
    /\ made' = [made EXCEPT !.result = BasicInit(made.args),
                            !.named = BasicNamed(made.args)]
    /\ pc' = "c_done"
    /\ op' = "Basic"
    /\ outcome' = IF made'.result = "built" THEN Returned(NoResult)
                  ELSE Raised(made'.result, 0, "")
    /\ UNCHANGED CredRest

MakeOAuth2 ==
    /\ pc = "c_new" /\ made.kind = "OAuth2"
    /\ made' = [made EXCEPT !.result = OAuth2Init(made.args),
                            !.named = OAuth2Named(made.args)]
    /\ pc' = "c_done"
    /\ op' = "OAuth2"
    /\ outcome' = IF made'.result = "built" THEN Returned(NoResult)
                  ELSE Raised(made'.result, 0, "")
    /\ UNCHANGED CredRest

InitCred ==
    /\ auth = [kind |-> "Basic", vanity |-> FALSE, username |-> TRUE,
               password |-> TRUE, client_id |-> FALSE, redirect_uri |-> FALSE]
    /\ pc = "c_new"
    /\ \E k \in {"Basic", "OAuth2"} :
          made \in { [kind |-> k, args |-> a, result |-> "pending", named |-> {}] :
                       a \in ArgsOf(k) }
    /\ provided_url = NoUrl
    /\ binding = NoBinding
    /\ NoTable
    /\ NoHeaders
    /\ NoClient
    /\ Blank

NextCred == MakeBasic \/ MakeOAuth2

SpecCred == InitCred /\ [][NextCred]_vars

\* The fields each variant requires, per the claim.
Required(kind) ==
    IF kind = "Basic" THEN {"host", "api_key", "username", "password"}
    ELSE {"host", "api_key", "client_id"}
Present(x) == x \notin {"omitted", "None", ""}

(* C20 as stated: construction fails exactly when a required field of the
   variant is empty or absent (host and api_key, plus username and password
   for Basic, plus client_id for OAuth2), and succeeds with all of them
   present whatever the optional fields are. *)
C20_AsStated ==
    pc = "c_done"
    => (made.result = "built"
          <=> \A f \in Required(made.kind) : Present(made.args[f]))

(* C21 as stated: the validation error of a credential constructor names the
   required fields that are missing in that call, and only those. *)
C21_AsStated ==
    (pc = "c_done" /\ made.result = "ValueError")
    => made.named = { f \in Required(made.kind) : ~Present(made.args[f]) }

(* C22: no step of the Session (scoped entry, any handshake, execute,
   reconnect, close) changes a field of the credential it holds. *)
C22_CredentialImmutable == [][auth' = auth]_vars

C22_Witness ==
    /\ auth.kind = "OAuth2" /\ auth.redirect_uri
    /\ op = "exit" /\ pc = "idle"
    /\ Len(handles) >= 2

(* C30 as stated: a token request carries redirect_uri exactly when it is an
   authorization-code exchange whose authorize request carried one; a
   password-grant token request carries grant_type, username, password and
   client_id and never a redirect_uri. *)
C30_AsStated ==
    \A i \in 1..Len(posts) :
       /\ "redirect_uri" \in posts[i].body
             <=> /\ posts[i].grant = "authorization_code"
                 /\ "redirect_uri" \in AuthorizeArgs(auth)
       /\ posts[i].grant = "password"
             => {"grant_type", "username", "password", "client_id"}
                   \subseteq posts[i].body

----------------------------------------------------------------------------
(* ResultTable: the decoder of a JSON Lines body *)

\* json.loads on the line texts of the model: a JSON array of strings gives
\* the sequence of its items (white space around it is skipped); any other
\* text here is not JSON.
LineTexts == {"[\"a\",\"b\"]", " [\"a\", \"b\"] ", "[\"1\"]", "[\"a\"", ""}
JsonLoads ==
    [t \in {"[\"a\",\"b\"]", " [\"a\", \"b\"] ", "[\"1\"]"} |->
        IF t = "[\"1\"]" THEN << "1" >> ELSE << "a", "b" >>]
WellFormed(t) == t \in DOMAIN JsonLoads

\* JSONDecodeError.lineno counts the lines inside the text handed to
\* json.loads, and a line of the source holds no newline.
DecodeErrorLineno(t) == 1

RECURSIVE SourcesOfLen(_)
SourcesOfLen(n) ==
    IF n = 0 THEN { << >> }
    ELSE { Append(sq, t) : sq \in SourcesOfLen(n - 1), t \in LineTexts }
Sources(n) == UNION { SourcesOfLen(k) : k \in 0..n }

\* Mutant: rows() yields the line as it is.
RowOf_Raw(t) == << t >>

\* yield json.loads(line)
RowOf(t) == JsonLoads[t]

\* Mutant: a source that reached its end starts again after the header.
ConsumedAtEnd_Rewinds(n) == IF n > 1 THEN 1 ELSE n

\* An iterator that reached its end stays there.
ConsumedAtEnd(n) == n

\* Mutant: a decode error puts the source back to its first data line.
ConsumedAfterError_Rewinds(n) == IF n > 0 THEN 1 ELSE n

\* `for line in self._generator` has taken the line from the iterator
\* before json.loads(line) raises: the line is gone.
ConsumedAfterError(n) == n + 1

\* took: the positions in the source of the lines this generator yielded.
NewGenerator == [state |-> "open", out |-> << >>, born |-> consumed, took |-> << >>]

TableRest ==
    << auth, session, handles, depth, ret, ExecLocals, Listener, exit_ex, trace,
       posts, made, provided_url, binding, source, HeaderVars, ApiVars >>

\* ResultTable(gen_f): header = json.loads(next(gen_f)). next raises
\* StopIteration on an iterator with no line; the line it gives is gone from
\* the iterator whether json.loads accepts it or not.
TNew ==
    /\ pc = "t_new"
    /\ op' = "ResultTable"
    /\ IF source = << >>
          THEN /\ outcome' = Raised("StopIteration", 0, "")
               /\ pc' = "t_failed"
               /\ UNCHANGED << consumed, header, error_lineno >>
          ELSE /\ consumed' = 1
               /\ IF WellFormed(source[1])
                     THEN /\ header' = JsonLoads[source[1]]
                          /\ outcome' = Returned(NoResult)
                          /\ pc' = "t_made"
                          /\ UNCHANGED error_lineno
                     ELSE /\ outcome' = Raised("JSONDecodeError", 0, "")
                          /\ error_lineno' = DecodeErrorLineno(source[1])
                          /\ pc' = "t_failed"
                          /\ UNCHANGED header
    /\ UNCHANGED << TableRest, gens >>

\* rows(): a new generator over the same iterator; its body has not run yet.
TRows ==
    /\ pc = "t_made"
    /\ Len(gens) < MaxGens
    /\ gens' = Append(gens, NewGenerator)
    /\ op' = "rows"
    /\ outcome' = Returned(NoResult)
    /\ UNCHANGED << TableRest, pc, consumed, header, error_lineno >>

\* next() on generator g: the loop takes the next line of the shared
\* iterator and yields it decoded. A generator that returned or raised is
\* finished and gives StopIteration from then on.
TNextRow(g) ==
    /\ pc = "t_made"
    /\ g \in 1..Len(gens)
    /\ op' = "next"
    /\ IF gens[g].state # "open"
          THEN /\ outcome' = Raised("StopIteration", 0, "")
               /\ UNCHANGED << gens, consumed, error_lineno >>
       ELSE IF consumed = Len(source)
          THEN /\ outcome' = Raised("StopIteration", 0, "")
               /\ gens' = [gens EXCEPT ![g].state = "done"]
               /\ consumed' = ConsumedAtEnd(consumed)
               /\ UNCHANGED error_lineno
       ELSE /\ IF WellFormed(source[consumed + 1])
                  THEN /\ gens' = [gens EXCEPT ![g].out =
                                      Append(@, RowOf(source[consumed + 1])),
                                                ![g].took = Append(@, consumed + 1)]
                       /\ consumed' = consumed + 1
                       /\ outcome' = Returned(NoResult)
                       /\ UNCHANGED error_lineno
                  ELSE /\ gens' = [gens EXCEPT ![g].state = "raised"]
                       /\ consumed' = ConsumedAfterError(consumed)
                       /\ outcome' = Raised("JSONDecodeError", 0, "")
                       /\ error_lineno' = DecodeErrorLineno(source[consumed + 1])
    /\ UNCHANGED << TableRest, pc, header >>

InitTable ==
    /\ auth = [kind |-> "Basic", vanity |-> FALSE, username |-> TRUE,
               password |-> TRUE, client_id |-> FALSE, redirect_uri |-> FALSE]
    /\ pc = "t_new"
    /\ made = NotMade
    /\ provided_url = NoUrl
    /\ binding = NoBinding
    /\ source \in Sources(MaxLines)
    /\ consumed = 0
    /\ header = << >>
    /\ gens = << >>
    /\ error_lineno = 0
    /\ NoHeaders
    /\ NoClient
    /\ Blank

NextTable ==
    \/ TNew
    \/ TRows
    \/ \E g \in 1..MaxGens : TNextRow(g)

SpecTable == InitTable /\ [][NextTable]_vars

AllWellFormed == \A i \in 1..Len(source) : WellFormed(source[i])
Decoded(from, to) == [i \in 1..(to - from + 1) |-> JsonLoads[source[from + i - 1]]]
RECURSIVE Yielded(_)
Yielded(n) == IF n = 0 THEN 0 ELSE Len(gens[n].out) + Yielded(n - 1)

(* C23: for a non-empty source of well-formed lines, the header is the
   decoded first line, and rows() yields the decoded remaining lines, one
   record per line, in source order, none skipped and none twice. *)
C23_HeaderAndRows ==
    (pc = "t_made" /\ AllWellFormed)
    => /\ header = JsonLoads[source[1]]
       /\ Yielded(Len(gens)) = consumed - 1
       /\ Len(gens) = 1
             => /\ gens[1].out = Decoded(2, consumed)
                /\ gens[1].state = "done" => consumed = Len(source)

C23_Witness ==
    /\ pc = "t_made" /\ AllWellFormed
    /\ Len(source) = 3 /\ source[2] # source[3]
    /\ Len(gens) = 1 /\ gens[1].state = "done" /\ Len(gens[1].out) = 2

(* C24: the decoder is single-pass: a rows() taken after the source was
   consumed to the end yields nothing, and consuming rows never changes the
   header. *)
C24_Step ==
    /\ pc = "t_made" => header' = header
    /\ \A g \in 1..Len(gens') :
          gens'[g].born = Len(source) => gens'[g].out = << >>

C24_SinglePass == [][C24_Step]_vars

C24_Witness ==
    /\ Len(source) = 3
    /\ Len(gens) = 2
    /\ gens[1].state = "done" /\ Len(gens[1].out) = 2
    /\ gens[2].born = Len(source) /\ gens[2].state = "done" /\ gens[2].out = << >>

(* C25 as stated: construction takes exactly the first line from the source
   and no other, and on a source with no line it fails with a decode error
   and no other kind of failure. *)
C25_AsStated ==
    (pc \in {"t_made", "t_failed"} /\ gens = << >>)
    => /\ source # << >> => consumed = 1
       /\ source = << >>
             => /\ consumed = 0
                /\ pc = "t_failed"
                /\ outcome.exc = "JSONDecodeError"

(* C26 as stated: a malformed first line fails construction, a malformed
   k-th data line fails when the k-th row is demanded, after rows 1..k-1
   were yielded, and the decode error names the position of the line. *)
C26_AsStated ==
    /\ (pc = "t_failed" /\ source # << >>)
          => /\ ~WellFormed(source[1])
             /\ outcome.exc = "JSONDecodeError"
             /\ error_lineno = 1
    /\ (Len(gens) = 1 /\ gens[1].state = "raised")
          => /\ ~WellFormed(source[consumed])
             /\ gens[1].out = Decoded(2, consumed - 1)
             /\ error_lineno = consumed - 1

----------------------------------------------------------------------------
(* The TargetTenantID header of the requests a request function builds *)

\* target_tenant_id of the credential of the Session whose execute invokes
\* the request function.
TenantIds == {"None", "t1", "t2"}

\* SessionContext.mk_headers(headers): the TargetTenantID entry of the dict
\* it returns, which is the dict it was handed.
MkHeaders(headers, target_tenant_id) ==
    IF target_tenant_id # "None" THEN target_tenant_id ELSE headers

Request(via, t, h) == [via |-> via, tenant |-> t, header |-> h]

HeadersRest ==
    << auth, session, handles, depth, pc, ret, ExecLocals, Listener, exit_ex, trace,
       posts, made, provided_url, binding, TableVars, ApiVars >>

\* QueryApiClient._execute_query_api: headers=s.mk_headers(self.HEADER),
\* with HEADER the dict of the class, shared by every client.
QueryRequest(t) ==
    /\ Len(sent) < MaxSent
    /\ HEADER' = MkHeaders(HEADER, t)
    /\ sent' = Append(sent, Request("query", t, HEADER'))
    /\ op' = "query"
    /\ outcome' = Returned(NoResult)
    /\ UNCHANGED HeadersRest

\* VisierSession._execute_query_api: headers=self.HEADER, the dict of
\* VisierSession, which nothing writes to.
LegacyRequest(t) ==
    /\ Len(sent) < MaxSent
    /\ sent' = Append(sent, Request("legacy", t, "absent"))
    /\ op' = "legacy"
    /\ outcome' = Returned(NoResult)
    /\ UNCHANGED << HeadersRest, HEADER >>

\* A request function of another client: headers=s.mk_headers(), a new dict.
PlainRequest(t) ==
    /\ Len(sent) < MaxSent
    /\ sent' = Append(sent, Request("plain", t, MkHeaders("absent", t)))
    /\ op' = "plain"
    /\ outcome' = Returned(NoResult)
    /\ UNCHANGED << HeadersRest, HEADER >>

InitHeaders ==
    /\ auth = [kind |-> "Basic", vanity |-> FALSE, username |-> TRUE,
               password |-> TRUE, client_id |-> FALSE, redirect_uri |-> FALSE]
    /\ pc = "h_idle"
    /\ made = NotMade
    /\ provided_url = NoUrl
    /\ binding = NoBinding
    /\ NoTable
    /\ NoHeaders
    /\ NoClient
    /\ Blank

NextHeaders ==
    \/ \E t \in TenantIds : QueryRequest(t)
    \/ \E t \in TenantIds : LegacyRequest(t)
    \/ \E t \in TenantIds : PlainRequest(t)

SpecHeaders == InitHeaders /\ [][NextHeaders]_vars

(* C27 as stated: every request a client issues through execute carries a
   TargetTenantID header equal to the target tenant of the Session's
   credential when that is set, and none when it is not, whatever requests
   were issued before by this or another client or Session. *)
C27_AsStated ==
    \A i \in 1..Len(sent) :
       sent[i].via \in {"query", "legacy"}
       => sent[i].header = (IF sent[i].tenant # "None" THEN sent[i].tenant
                            ELSE "absent")

----------------------------------------------------------------------------
(* ApiClientBase: run and last_error over a VisierSession *)

NoRun == [kind |-> "none", exc |-> ""]

\* f"Error. Message: {ex.message}. Status Code: {ex.status_code}.": message
\* and status_code are methods and are not called, so the text holds their
\* reprs, not the message and the status.
LastErrorOf(e) == "Error. Message: <bound method>. Status Code: <bound method>."

\* except QueryExecutionError as ex
Caught(e) == e.exc = "QueryExecutionError"

\* Credentials of the Sessions the client is used with.
ApiCredentials == { a \in Credentials : Handshake(a) # "auth_code" }

\* run(func), up to the call of execute: self._last_error = None unless
\* raise_on_error.
RunBegin ==
    /\ run_pos = "idle"
    /\ pc = "idle"
    /\ Len(handles) < MaxHandles
    /\ run_pos' = "called"
    /\ run_result' = NoRun
    /\ last_error' = IF raise_on_error THEN last_error ELSE "None"
    /\ op' = "run"
    /\ UNCHANGED << auth, session, handles, depth, pc, ret, ExecLocals, Listener,
                    exit_ex, trace, outcome, posts, made, provided_url, binding,
                    TableVars, HeaderVars, raise_on_error >>

\* run(func), once execute has returned or raised.
RunEnd ==
    /\ run_pos = "called"
    /\ op = "execute" /\ pc = "idle"
    /\ run_pos' = "idle"
    /\ IF outcome.kind = "return"
          THEN /\ run_result' = [kind |-> "response", exc |-> ""]
               /\ UNCHANGED last_error
       ELSE IF ~raise_on_error /\ Caught(outcome)
          THEN /\ run_result' = [kind |-> "None", exc |-> ""]
               /\ last_error' = LastErrorOf(outcome)
       ELSE /\ run_result' = [kind |-> "raise", exc |-> outcome.exc]
            /\ UNCHANGED last_error
    /\ UNCHANGED << auth, session, handles, depth, pc, op, ret, ExecLocals, Listener,
                    exit_ex, trace, outcome, posts, made, provided_url, binding,
                    TableVars, HeaderVars, raise_on_error >>

InitApi ==
    /\ auth \in ApiCredentials
    /\ pc = "idle"
    /\ made = NotMade
    /\ provided_url = NoUrl
    /\ binding = NoBinding
    /\ NoTable
    /\ NoHeaders
    /\ raise_on_error \in BOOLEAN
    /\ last_error = "None"
    /\ run_pos = "idle"
    /\ run_result = NoRun
    /\ Blank

\* The client's Session is entered and left by the caller between runs, and
\* execute runs inside run.
ApiEnter == run_pos = "idle" /\ Enter
ApiExit(ex) == run_pos = "idle" /\ Exit(ex)
RunExecute == run_pos = "called" /\ op = "run" /\ ExecuteBegin

NextApi ==
    \/ ApiEnter
    \/ \E ex \in BOOLEAN : ApiExit(ex)
    \/ \E s \in HsStatuses : ConnectBasic(s)
    \/ \E s \in HsStatuses, t \in BOOLEAN : ConnectOAuthPassword(s, t)
    \/ RunBegin
    \/ RunExecute
    \/ ExReturn
    \/ ExContextFails
    \/ \E s \in Statuses, t \in Texts : ExAttempt(s, t)
    \/ RunEnd

SpecApi == InitApi /\ [][NextApi]_vars

RunDone == run_pos = "idle" /\ op = "execute" /\ run_result # NoRun
\* execute failed the way the claims mean: a terminal error response, or a
\* reconnect after a 401 that failed.
ExecuteFailed ==
    /\ outcome.kind = "raise"
    /\ \/ RaisedQEEOf(Last(Calls))
       \/ Reconnects = 1 /\ ConnectFailed

(* C28 as stated: with raise_on_error=False run never raises when execute
   fails (terminal error response, or failed reconnect after a 401): it
   returns None and last_error is not None; with raise_on_error=True the
   same failures raise to the caller. *)
C28_AsStated ==
    (RunDone /\ Calls # << >> /\ ExecuteFailed)
    => IF raise_on_error
          THEN run_result.kind = "raise"
          ELSE run_result.kind = "None" /\ last_error # "None"

(* C29 as stated, for a client with raise_on_error=False: after a run,
   last_error is None if and only if that run was successful. *)
C29_AsStated ==
    (RunDone /\ ~raise_on_error)
    => (last_error = "None" <=> run_result.kind = "response")

----------------------------------------------------------------------------
(* PKCE of the authorization-code handshake *)

\* RFC 7636 S256: BASE64URL(SHA256(ASCII(code_verifier))) without padding.
S256(v) ==
    CASE v = "dBjftJeZ4CVP-mB92K27uhbUJU1p1r_wW1gFWFOEjXk" ->
           "E9Melhoa2OwvFrEMTJguCHaoeK1t8URWbuGJSstw-cM"
      [] v = "verifier-2_abc" -> "X40F_GVTKM44DsolitGSop9ZutwiZUtULLEETOuVtHI"

(* C31: for every generated PKCE pair the challenge is the SHA-256 digest of
   the verifier, base64url-encoded with the padding removed; the authorize
   URL of a connect attempt carries that challenge, and the token exchange
   of the same attempt sends the verifier it was made from. *)
C31_PkcePair ==
    pkce # NoPkce
    => /\ pkce.code_verifier \in Verifiers
       /\ pkce.code_challenge = << S256(pkce.code_verifier) >>
       /\ pkce.authorize = << S256(pkce.code_verifier) >>
       /\ pkce.exchanged \in {"", pkce.code_verifier}
       /\ pc = "ac_exit" /\ posts # << >> => pkce.exchanged = pkce.code_verifier

\* A token exchange was sent with the second verifier.
C31_Witness ==
    /\ pc = "ac_exit"
    /\ posts # << >>
    /\ pkce.exchanged = "verifier-2_abc"
    /\ pkce.authorize = << "X40F_GVTKM44DsolitGSop9ZutwiZUtULLEETOuVtHI" >>

----------------------------------------------------------------------------
(* C32: a failed connect attempt leaves the Session's transport handle as it
   was before the attempt: a handle is created only after a token request
   was answered without an error, a failed scoped entry of an unconnected
   Session leaves it unconnected, and a failed reconnect leaves the
   previous, still open, handle in place. *)
C32_FailedConnectKeepsHandle ==
    /\ (ConnectStarted /\ ~ConnectSucceeded)
       => /\ session = SessionAtBegin
          /\ session # 0 => ~handles[session].closed
    /\ ConnectSucceeded
       => /\ posts # << >>
          /\ Answered(Last(posts)) /\ ~IsError(Last(posts).status_code)
    /\ (ConnectFailed /\ op = "enter" /\ SessionAtBegin = 0) => session = 0
    /\ (ConnectFailed /\ op = "execute")
       => session = Calls[1].handle /\ session # 0

\* A reconnect after a 401 failed on an error answer to its token request.
C32_Witness ==
    /\ ConnectFailed /\ op = "execute"
    /\ posts # << >> /\ Last(posts).status_code = 401
    /\ session # 0 /\ session = SessionAtBegin

----------------------------------------------------------------------------
\* What the handshake of the attempt in progress raised, read off its
\* token request: no request was sent when the listener could not bind or
\* the wait for the code timed out.
C33_HandshakeError ==
    IF posts = << >>
       THEN IF outcome.exc = "OSError"
               THEN Raised("OSError", 0, "")
               ELSE Raised("OAuthConnectError", 0, "Timed out waiting for OAuth2 auth code")
    ELSE IF Last(posts).status_code = 0 THEN Raised("RequestException", 0, "")
    ELSE IF Last(posts).grant = "basic" /\ Last(posts).status_code = 500 /\ ~auth.vanity
         THEN Raised("QueryExecutionError", 500, "Vanity name is required")
    ELSE IF IsError(Last(posts).status_code)
         THEN Raised("HTTPError", Last(posts).status_code, "")
    ELSE Raised("KeyError", 0, "")

(* C33: when the reconnect triggered by a 401 inside execute fails, execute
   raises to its caller exactly what the handshake raised, the function was
   invoked once only, and the failure is neither turned into the
   QueryExecutionError of the 401 response nor swallowed. *)
C33_ReconnectFailurePropagates ==
    (ExecuteDone /\ Reconnects = 1 /\ ~ConnectSucceeded)
    => /\ ConnectFailed
       /\ Len(Calls) = 1 /\ Calls[1].status_code = 401
       /\ outcome = C33_HandshakeError
       /\ ~RaisedQEEOf(Calls[1])

\* The reconnect's token request was answered 401: HTTPError reaches the
\* caller of execute.
C33_Witness ==
    /\ ExecuteDone /\ Reconnects = 1 /\ ConnectFailed
    /\ posts # << >> /\ Last(posts).status_code = 401
    /\ outcome = Raised("HTTPError", 401, "")

----------------------------------------------------------------------------
\* The scheme under which the credential's handshake binds its token.
C34_Scheme == IF Handshake(auth) = "basic" THEN "cookie" ELSE "bearer"

(* C34: after any sequence of successful and failed connects, the handle
   the Session holds is the one made by the most recent successful
   handshake and carries that handshake's token (the k-th successful
   handshake issues token k), under the credential's scheme, with the
   apikey header; every handle carries a token of its own, and a handle
   just installed is a fresh transport with nothing set on it yet. *)
C34_CurrentCredentials ==
    /\ session # 0
       => /\ session = Len(handles)
          /\ handles[session].token = session
          /\ handles[session].scheme = C34_Scheme
          /\ handles[session].apikey
          /\ ~handles[session].closed
    /\ \A i, j \in 1..Len(handles) :
          i # j => handles[i].token # handles[j].token
    /\ (trace # << >> /\ Last(trace).ev = "connected")
       => ~handles[session].user_agent

\* A reconnect after a 401 succeeded: the Session holds the second handle
\* with the second token, the first one keeps its own.
C34_Witness ==
    /\ ExecuteDone /\ Reconnects = 1 /\ ConnectSucceeded
    /\ Len(handles) = 2 /\ session = 2
    /\ handles[1].user_agent /\ handles[1].token = 1
    /\ handles[2].token = 2

----------------------------------------------------------------------------
Unclosed == { i \in 1..Len(handles) : ~handles[i].closed }

(* C35 as stated, for a Session that is entered once at a time: every
   handle the Session created has been closed when its scoped exit
   completes, and at no time does more than one unclosed handle exist. *)
C35_AsStated ==
    /\ depth <= 1 => Cardinality(Unclosed) <= 1
    /\ (op = "exit" /\ depth = 0) => Unclosed = {}

----------------------------------------------------------------------------
(* C36 as stated: a request to the bound path without a code parameter
   places nothing on the delivery queue and does not unblock the waiting
   connect, so that a token exchange is attempted only with a code that was
   present in a callback request. *)
C36_AsStated ==
    /\ \A i \in 1..Len(queue) : queue[i] \in Codes
    /\ Got => code \in Codes
    /\ \A i \in 1..Len(posts) :
          posts[i].grant = "authorization_code" => posts[i].code \in Codes

----------------------------------------------------------------------------
\* The deliveries so far: generator g yielded, as its i-th row, line k.
Deliveries ==
    { d \in (1..MaxGens) \X (1..MaxLines) :
         d[1] <= Len(gens) /\ d[2] <= Len(gens[d[1]].took) }
LineOf(d) == gens[d[1]].took[d[2]]

(* C37: all iterators obtained from rows() of one decoder draw from the
   same line source: under any interleaving, every data line taken from
   the source so far was delivered, decoded, exactly once to exactly one
   iterator if it is well-formed and to none if it is not, no iterator is
   given a line taken before it was obtained, and so an iterator obtained
   after a decode error on line k goes on at line k+1. *)
C37_SharedSource ==
    pc = "t_made"
    => /\ \A d \in Deliveries :
             /\ LineOf(d) \in 2..consumed
             /\ LineOf(d) > gens[d[1]].born
             /\ gens[d[1]].out[d[2]] = JsonLoads[source[LineOf(d)]]
       /\ \A d, e \in Deliveries : LineOf(d) = LineOf(e) => d = e
       /\ \A k \in 2..consumed :
             WellFormed(source[k]) <=> \E d \in Deliveries : LineOf(d) = k
       /\ \A g \in 1..Len(gens) :
             /\ Len(gens[g].took) = Len(gens[g].out)
             /\ (gens[g].born >= 2 /\ ~WellFormed(source[gens[g].born])
                   /\ gens[g].took # << >> /\ WellFormed(source[gens[g].born + 1]))
                => \E d \in Deliveries : LineOf(d) = gens[g].born + 1

\* The first iterator failed on line 2; the second, obtained after that,
\* yielded line 3.
C37_Witness ==
    /\ pc = "t_made" /\ Len(source) = 3
    /\ ~WellFormed(source[2]) /\ WellFormed(source[3])
    /\ Len(gens) = 2
    /\ gens[1].state = "raised" /\ gens[1].took = << >>
    /\ gens[2].born = 2 /\ gens[2].took = << 3 >>

====
